---------------------------- MODULE Spec2Model ----------------------------
(***************************************************************************)
(* Chess rules engine of src/board.py: the Board (grid, position map,      *)
(* king references, en-passant state), its mutation primitives and the     *)
(* legality engine (danger zone, attackers, legal moves).                  *)
(*                                                                         *)
(* board.py imports the piece classes from pieces.py and the coordinate    *)
(* helpers from misc.py.  Neither file is part of src/, so the piece       *)
(* geometry (get_moves, danger_zone, check_pins, move_set) and the         *)
(* coordinate conversion are written from sections 3, 4.1 and 4.5 of the   *)
(* specification; everything of class Board is written from board.py.      *)
(***************************************************************************)
EXTENDS Integers, FiniteSets, Sequences, TLC

(***************************************************************************)
(* Program constants and bounds of the model                               *)
(***************************************************************************)
\* RAN8 = range(8), np.zeros((8, 8)): the board is 8 x 8.
N == 8

\* The caller's positions (put_piece, place_king, remove, move) are drawn from
\* the files 0..MaxFile and the RowsBelow + 1 rows ending at Black's pawn row.
\* Rays, danger zones and legal moves are computed on the whole 8 x 8 board.
MaxFile == 1
RowsBelow == 3
\* At most MaxPieces pieces stand on the board at a time.
MaxPieces == 2
\* The caller makes at most MaxCalls calls on a Board constructed empty.
MaxCalls == 4
\* A position that is set up holds at most SetupPieces pieces, and at most
\* MaxPlies moves are played from it.
SetupPieces == 4
MaxPlies == 1
\* The caller constructs pieces of the first NKinds classes of PieceClasses.
NKinds == 2

Team == {"w", "b"}
Kinds == {"Pawn", "Knight", "Bishop", "Rook", "Queen", "King"}
\* The constructors the caller passes to put_piece (kings go through place_king).
PieceClasses == <<"Pawn", "Rook", "Knight", "Bishop", "Queen">>
PutKinds == { PieceClasses[i] : i \in { j \in 1 .. NKinds : j <= 5 } }

Coords == 0 .. (N - 1)
Pos == Coords \X Coords

\* Team.__invert__ (~team).
Other(t) == IF t = "w" THEN "b" ELSE "w"

\* White advances toward increasing rank, Black toward decreasing rank.
Dir(t) == IF t = "w" THEN 1 ELSE -1
\* The rank a pawn starts on (0-based row): rank 2 for White, rank 7 for Black.
StartRow(t) == IF t = "w" THEN 1 ELSE N - 2

\* The absent values: None for a position, for a piece reference, and the 0 an
\* empty grid square holds.
NonePos == <<>>
NonePiece == [kind |-> "None", team |-> "-", position |-> <<>>]
Zero == [kind |-> "Zero", team |-> "-", position |-> <<>>]

\* A piece object: Piece(team, position) of the given class.
Piece(k, t, p) == [kind |-> k, team |-> t, position |-> p]

(***************************************************************************)
(* Piece geometry (pieces.py; from section 4.1 of the specification).      *)
(* occ is the position map the board hands to every piece query.           *)
(***************************************************************************)
OnBoard(p) == p[1] \in Coords /\ p[2] \in Coords

Step(p, d, k) == <<p[1] + k * d[1], p[2] + k * d[2]>>

RookDirs == {<<1, 0>>, <<-1, 0>>, <<0, 1>>, <<0, -1>>}
BishopDirs == {<<1, 1>>, <<1, -1>>, <<-1, 1>>, <<-1, -1>>}
KingDirs == RookDirs \cup BishopDirs
KnightOffsets == {<<1, 2>>, <<2, 1>>, <<-1, 2>>, <<-2, 1>>,
                  <<1, -2>>, <<2, -1>>, <<-1, -2>>, <<-2, -1>>}

SliderDirs(k) ==
    CASE k = "Rook" -> RookDirs
      [] k = "Bishop" -> BishopDirs
      [] k = "Queen" -> KingDirs
      [] OTHER -> {}

IsSlider(k) == k \in {"Rook", "Bishop", "Queen"}

\* A ray of raw targets: stops at the first occupied square, inclusive if it
\* holds an enemy, exclusive if it holds a piece of the own team.
RayMoves(occ, t, p, d) ==
    { Step(p, d, k) : k \in
        { k \in 1 .. (N - 1) :
            /\ OnBoard(Step(p, d, k))
            /\ \A j \in 1 .. (k - 1) : Step(p, d, j) \notin DOMAIN occ
            /\ (Step(p, d, k) \in DOMAIN occ => occ[Step(p, d, k)].team # t) } }

\* A square a threat passes through: empty, or the enemy King.
Transparent(occ, t, q) ==
    q \notin DOMAIN occ \/ (occ[q].kind = "King" /\ occ[q].team # t)

\* A ray of threatened squares: the first occupied square is threatened
\* whatever stands on it, and an enemy King on the line does not block the ray.
RayDanger(occ, t, p, d) ==
    { Step(p, d, k) : k \in
        { k \in 1 .. (N - 1) :
            /\ OnBoard(Step(p, d, k))
            /\ \A j \in 1 .. (k - 1) : Transparent(occ, t, Step(p, d, j)) } }

\* The squares at the given offsets that are on the board.
Offsets(p, ds) == { q \in { Step(p, d, 1) : d \in ds } : OnBoard(q) }

\* Pawn.get_moves: one square forward if empty, two from the starting rank if
\* both are empty, a diagonal capture of an enemy, the en-passant square.
PawnMoves(occ, t, p, ep) ==
    LET f1 == <<p[1], p[2] + Dir(t)>>
        f2 == <<p[1], p[2] + 2 * Dir(t)>>
        diag == Offsets(p, {<<1, Dir(t)>>, <<-1, Dir(t)>>})
    IN  (IF OnBoard(f1) /\ f1 \notin DOMAIN occ THEN {f1} ELSE {})
        \cup (IF /\ p[2] = StartRow(t)
                 /\ f1 \notin DOMAIN occ
                 /\ f2 \notin DOMAIN occ
              THEN {f2} ELSE {})
        \cup { q \in diag : (q \in DOMAIN occ /\ occ[q].team # t) \/ q = ep }

\* piece.get_moves(pieces, en_passant): the raw targets of a piece of kind k
\* and team t standing on p.
get_moves(occ, k, t, p, ep) ==
    CASE k = "Pawn" -> PawnMoves(occ, t, p, ep)
      [] k = "Knight" ->
            { q \in Offsets(p, KnightOffsets) : q \in DOMAIN occ => occ[q].team # t }
      [] k = "King" ->
            { q \in Offsets(p, KingDirs) : q \in DOMAIN occ => occ[q].team # t }
      [] OTHER -> UNION { RayMoves(occ, t, p, d) : d \in SliderDirs(k) }

\* piece.danger_zone(pieces): the squares a piece of kind k and team t on p
\* threatens.
danger_zone(occ, k, t, p) ==
    CASE k = "Pawn" -> Offsets(p, {<<1, Dir(t)>>, <<-1, Dir(t)>>})
      [] k = "Knight" -> Offsets(p, KnightOffsets)
      [] k = "King" -> Offsets(p, KingDirs)
      [] OTHER -> UNION { RayDanger(occ, t, p, d) : d \in SliderDirs(k) }

\* The squares of the ray from p in direction d up to and including its k-th.
RayTo(p, d, k) == { Step(p, d, j) : j \in 1 .. k }

\* King.check_pins(pieces): for each friendly piece on a ray between the King
\* and an enemy sliding piece that moves along that ray, with no other piece
\* interposed, the pair <<position of the pinned piece, squares of the ray>>.
Between(occ, kp, d, k) == { j \in 1 .. (k - 1) : Step(kp, d, j) \in DOMAIN occ }

check_pins(occ, t, kp) ==
    { <<Step(kp, x[1], CHOOSE i \in Between(occ, kp, x[1], x[2]) : TRUE),
        RayTo(kp, x[1], x[2])>> : x \in
        { x \in KingDirs \X (2 .. (N - 1)) :
            /\ OnBoard(Step(kp, x[1], x[2]))
            /\ Step(kp, x[1], x[2]) \in DOMAIN occ
            /\ occ[Step(kp, x[1], x[2])].team # t
            /\ x[1] \in SliderDirs(occ[Step(kp, x[1], x[2])].kind)
            /\ Cardinality(Between(occ, kp, x[1], x[2])) = 1
            /\ \A i \in Between(occ, kp, x[1], x[2]) :
                  occ[Step(kp, x[1], i)].team = t } }

(***************************************************************************)
(* Coordinates (misc.py; from sections 3 and 6 of the specification).      *)
(* A chess coordinate is <<file letter, 1-based rank>>, a raw coordinate   *)
(* <<column, row>>; board.py keeps piece.position 0-based with row 0 for   *)
(* rank 1 (plot_chessboard flips it with 7 - y).                           *)
(***************************************************************************)
Files == <<"a", "b", "c", "d", "e", "f", "g", "h">>

chess_to_coord(c) == <<(CHOOSE i \in 1 .. N : Files[i] = c[1]) - 1, c[2] - 1>>

coord_to_chess(p) == <<Files[p[1] + 1], p[2] + 1>>

\* to_coord(*new_position) of a chess coordinate.
to_coord(c) == chess_to_coord(c)

\* to_both_coord(posx, posy): <<the chess coordinate, the raw coordinate>>.
to_both_coord(c) == <<c, chess_to_coord(c)>>

(***************************************************************************)
(* The Board.  A board value is the record of the four attributes          *)
(* Board.__init__ sets; the mutating methods are operators from a board    *)
(* value to the pair [b: the board afterwards, err: the exception raised   *)
(* or "ok"].                                                               *)
(***************************************************************************)
VARIABLES
    board,        \* self.board: the 8 x 8 grid, as the function from the squares
                  \* that hold a piece to it; every other square holds 0
    _pieces,      \* self._pieces: dict from raw position to piece
    kings,        \* self.kings: Team -> King or None
    en_passant,   \* self.en_passant: <<skipped square or None, pawn or None>>
    last,         \* the last call of the caller: method, outcome, arguments
    lastmove,     \* what the most recently applied move was
    calls         \* the number of calls made so far

vars == <<board, _pieces, kings, en_passant, last, lastmove, calls>>

Self == [board |-> board, _pieces |-> _pieces, kings |-> kings,
         en_passant |-> en_passant]

Ok(b) == [b |-> b, err |-> "ok"]
Raise(b, e) == [b |-> b, err |-> e]

\* Board.__init__(board=None).
EmptyBoard ==
    [board |-> <<>>,
     _pieces |-> <<>>,
     kings |-> [t \in Team |-> NonePiece],
     en_passant |-> <<NonePos, NonePiece>>]

\* self.board[col, row].
Grid(g, p) == IF p \in DOMAIN g THEN g[p] ELSE Zero

\* dict without a key / with a key set.
DictPop(d, k) == [x \in (DOMAIN d) \ {k} |-> d[x]]
DictSet(d, k, v) == [x \in (DOMAIN d) \cup {k} |-> IF x = k THEN v ELSE d[x]]

\* Board.__setitem__(pos, val): pos is a chess coordinate.
setitem(b, pos, val) ==
    LET c == chess_to_coord(pos)
    IN  IF Grid(b.board, c) # Zero \/ c \in DOMAIN b._pieces
        THEN Raise(b, "ValueError")
        ELSE Ok([b EXCEPT !.board = DictSet(@, c, val),
                          !._pieces = DictSet(@, c, val)])

\* A faulty remove that pops the map entry and leaves the grid square as it is.
remove_keeps_grid(b, pos) ==
    IF pos \notin DOMAIN b._pieces
    THEN Raise(b, "KeyError")
    ELSE Ok([b EXCEPT !._pieces = DictPop(@, pos)])

\* A faulty remove that also forgets the King reference of the removed piece.
remove_forgets_king(b, pos) ==
    IF pos \notin DOMAIN b._pieces
    THEN Raise(b, "KeyError")
    ELSE Ok([b EXCEPT !._pieces = DictPop(@, pos),
                      !.board = DictPop(@, pos),
                      !.kings = [t \in Team |->
                                    IF @[t] = b._pieces[pos]
                                    THEN NonePiece ELSE @[t]]])

\* Board.remove(pos): pos is a raw coordinate; dict.pop raises KeyError.
remove(b, pos) ==
    IF pos \notin DOMAIN b._pieces
    THEN Raise(b, "KeyError")
    ELSE Ok([b EXCEPT !._pieces = DictPop(@, pos),
                      !.board = DictPop(@, pos)])

\* Board.destroy(piece): remove(piece.position), then piece.destroy().
destroy(b, piece) == remove(b, piece.position)

\* piece.move_set[piece.position], first element or None: the square a pawn
\* passes over on a double advance to npos, None for every other pawn move.
move_set(piece, npos) ==
    IF npos = <<piece.position[1], piece.position[2] + 2 * Dir(piece.team)>>
    THEN <<piece.position[1], piece.position[2] + Dir(piece.team)>>
    ELSE NonePos

\* piece.set_position(npos) as every reference to the piece sees it: the kings
\* entry of the piece's team when it is this piece, and the en-passant pawn.
set_position(b, piece, npos) ==
    LET moved == [piece EXCEPT !.position = npos]
    IN  [b EXCEPT
           !.kings = [t \in Team |-> IF @[t] = piece THEN moved ELSE @[t]],
           !.en_passant = IF @[2] = piece THEN <<@[1], moved>> ELSE @]

\* A faulty lines 85-96 where a Pawn that moves to the en-passant square does
\* not destroy the pawn that advanced.
move_capture_spares_pawn(b, piece, npos) ==
    IF piece.kind = "Pawn"
    THEN Ok([b EXCEPT !.en_passant = <<move_set(piece, npos), piece>>])
    ELSE LET b1 == [b EXCEPT !.en_passant = <<NonePos, NonePiece>>]
         IN  IF npos \in DOMAIN b1._pieces
             THEN LET r == destroy(b1, b1._pieces[npos])
                  IN  IF r.err # "ok" THEN Raise(b1, r.err) ELSE r
             ELSE Ok(b1)

\* A faulty lines 85-96 where a piece that is not a Pawn leaves en_passant as
\* it is.
move_capture_keeps_flag(b, piece, npos) ==
    IF piece.kind = "Pawn"
    THEN LET r == IF npos = b.en_passant[1]
                  THEN destroy(b, b.en_passant[2])
                  ELSE Ok(b)
         IN  IF r.err # "ok"
             THEN r
             ELSE Ok([r.b EXCEPT !.en_passant = <<move_set(piece, npos), piece>>])
    ELSE IF npos \in DOMAIN b._pieces
         THEN destroy(b, b._pieces[npos])
         ELSE Ok(b)

\* Board.move, lines 85-96: the en-passant capture and bookkeeping of a Pawn,
\* the capture on the destination square of every other piece.
move_capture(b, piece, npos) ==
    IF piece.kind = "Pawn"
    THEN LET r == IF npos = b.en_passant[1]
                  THEN destroy(b, b.en_passant[2])
                  ELSE Ok(b)
         IN  IF r.err # "ok"
             THEN r
             ELSE Ok([r.b EXCEPT !.en_passant = <<move_set(piece, npos), piece>>])
    ELSE LET b1 == [b EXCEPT !.en_passant = <<NonePos, NonePiece>>]
         IN  IF npos \in DOMAIN b1._pieces
             THEN LET r == destroy(b1, b1._pieces[npos])
                  IN  IF r.err # "ok" THEN Raise(b1, r.err) ELSE r
             ELSE Ok(b1)

\* Board.move(piece, new_position): new_position is a chess coordinate.
move(b, piece, new_position) ==
    LET npos == to_coord(new_position)
        r1 == move_capture(b, piece, npos)
    IN  IF r1.err # "ok"
        THEN r1
        ELSE LET r2 == remove(r1.b, piece.position)
             IN  IF r2.err # "ok"
                 THEN Raise(r1.b, r2.err)
                 ELSE setitem(set_position(r2.b, piece, npos), new_position,
                              [piece EXCEPT !.position = npos])

\* Board.put_piece(posx, posy, piece, team).
put_piece(b, c, k, t) ==
    LET both == to_both_coord(c)
    IN  setitem(b, both[1], Piece(k, t, both[2]))

\* A faulty place_king that stores kings[team] before the square is written.
place_king_kings_first(b, c, t) ==
    LET both == to_both_coord(c)
        king == Piece("King", t, both[2])
        b1 == [b EXCEPT !.kings = [@ EXCEPT ![t] = king]]
    IN  setitem(b1, both[1], king)

\* Board.place_king(posx, posy, team): the grid and the map are written first,
\* kings[team] second (the targets of a chained assignment, left to right).
place_king(b, c, t) ==
    LET both == to_both_coord(c)
        king == Piece("King", t, both[2])
        r == setitem(b, both[1], king)
    IN  IF r.err # "ok"
        THEN r
        ELSE Ok([r.b EXCEPT !.kings = [@ EXCEPT ![t] = king]])

(***************************************************************************)
(* Danger zone, check detection, attacker enumeration, legal moves.        *)
(***************************************************************************)
\* Board.get_danger_zone(team): all positions the given team attacks.
get_danger_zone(b, team) ==
    UNION { danger_zone(b._pieces, b._pieces[pos].kind, b._pieces[pos].team,
                        b._pieces[pos].position) :
            pos \in { q \in DOMAIN b._pieces : b._pieces[q].team = team } }

\* Board.is_check(team) with danger_zone=None.
is_check(b, team) == b.kings[team].position \in get_danger_zone(b, Other(team))

\* The danger zones of the phantom Rook, Bishop, Knight and Pawn of the
\* defending team on the King's square (lines 201-210).
PhantomZone(b, team, k) ==
    danger_zone(b._pieces, k, team, b.kings[team].position)

\* The loop of get_attackers (lines 213-227) without its early return: every
\* <<piece, blocking squares>> the if/elif chain appends.
attackers_all(b, team) ==
    LET occ == b._pieces
        rdng == PhantomZone(b, team, "Rook")
        bdng == PhantomZone(b, team, "Bishop")
        kdng == PhantomZone(b, team, "Knight")
        pdng == PhantomZone(b, team, "Pawn")
        cand == { pos \in DOMAIN occ :
                    occ[pos].team # team /\ occ[pos].kind # "King" }
    IN  { <<occ[pos], bdng \cap get_moves(occ, "Bishop", Other(team), pos, NonePos)>> :
            pos \in { q \in cand : occ[q].kind \in {"Bishop", "Queen"} /\ q \in bdng } }
        \cup
        { <<occ[pos], rdng \cap get_moves(occ, "Rook", Other(team), pos, NonePos)>> :
            pos \in { q \in cand :
                        /\ ~(occ[q].kind \in {"Bishop", "Queen"} /\ q \in bdng)
                        /\ occ[q].kind \in {"Rook", "Queen"}
                        /\ q \in rdng } }
        \cup
        { <<occ[pos], {pos}>> :
            pos \in { q \in cand :
                        \/ occ[q].kind = "Knight" /\ q \in kdng
                        \/ occ[q].kind = "Pawn" /\ q \in pdng } }

\* Board.get_attackers(team): the lists the call can return, as sets.  The loop
\* returns as soon as two attackers are found, in the iteration order of the
\* dict; with more than two candidates any two of them may be the result.
get_attackers(b, team) ==
    LET all == attackers_all(b, team)
    IN  IF Cardinality(all) <= 2
        THEN {all}
        ELSE { a \in SUBSET all : Cardinality(a) = 2 }

\* The squares left to the pieces other than the King when the King is
\* attacked (lines 262-272): with one attacker its square and its blocking
\* squares, with two nothing.
block_moves(attackers) ==
    IF Cardinality(attackers) = 1
    THEN UNION { {a[1].position} \cup a[2] : a \in attackers }
    ELSE {}

\* Lines 273-279: the restriction of the moves of a piece other than the King
\* under check, and the en-passant square added to every Pawn's moves.
check_restrict(b, attackers, piece, moves) ==
    (moves \cap block_moves(attackers))
    \cup (IF b.en_passant[1] # NonePos /\ piece.kind = "Pawn"
          THEN {b.en_passant[1]} ELSE {})

\* Lines 253-256: the moves of the piece on pos intersected with its pin rays.
pin_restrict(pins, pos, moves) ==
    { q \in moves : \A x \in pins : x[1] = pos => q \in x[2] }

\* A faulty legal_moves that leaves out the pieces that cannot move.
legal_moves_skips_stuck(b, team) ==
    LET occ == b._pieces
        king == b.kings[team]
        mine == { pos \in DOMAIN occ : occ[pos].team = team }
        dzone == get_danger_zone(b, Other(team))
        pins == check_pins(occ, team, king.position)
        attackers == CHOOSE a \in get_attackers(b, team) : TRUE
        raw(pos) == get_moves(occ, occ[pos].kind, team, occ[pos].position,
                              b.en_passant[1])
        pinned(pos) == pin_restrict(pins, pos, raw(pos))
        checked(pos) == IF attackers # {} /\ pos # king.position
                        THEN check_restrict(b, attackers, occ[pos], pinned(pos))
                        ELSE pinned(pos)
        final(pos) == IF pos = king.position
                      THEN checked(pos) \ dzone
                      ELSE checked(pos)
    IN  [pos \in { q \in mine : final(q) # {} } |-> final(pos)]

\* Board.legal_moves(team): the dict from the positions of the team's pieces
\* to their move sets.  The entry under king.position has the enemy danger
\* zone subtracted (line 282).
legal_moves(b, team) ==
    LET occ == b._pieces
        king == b.kings[team]
        mine == { pos \in DOMAIN occ : occ[pos].team = team }
        dzone == get_danger_zone(b, Other(team))
        pins == check_pins(occ, team, king.position)
        attackers == CHOOSE a \in get_attackers(b, team) : TRUE
        raw(pos) == get_moves(occ, occ[pos].kind, team, occ[pos].position,
                              b.en_passant[1])
        pinned(pos) == pin_restrict(pins, pos, raw(pos))
        checked(pos) == IF attackers # {} /\ pos # king.position
                        THEN check_restrict(b, attackers, occ[pos], pinned(pos))
                        ELSE pinned(pos)
    IN  [pos \in mine |-> IF pos = king.position
                          THEN checked(pos) \ dzone
                          ELSE checked(pos)]

\* The exception a query raises, or "ok".  kings[team] is None until
\* place_king(team): is_check (line 188) and get_attackers (line 201) read
\* None.position, legal_moves (line 254) reads None.check_pins, and Python
\* raises AttributeError.  legal_moves also indexes its dict by king.position
\* (line 282), a KeyError when the King is in kings and not in the map.
is_check_raises(b, team) ==
    IF b.kings[team] = NonePiece THEN "AttributeError" ELSE "ok"

get_attackers_raises(b, team) ==
    IF b.kings[team] = NonePiece THEN "AttributeError" ELSE "ok"

legal_moves_raises(b, team) ==
    IF b.kings[team] = NonePiece THEN "AttributeError"
    ELSE IF b.kings[team].position
              \notin { pos \in DOMAIN b._pieces : b._pieces[pos].team = team }
         THEN "KeyError"
         ELSE "ok"

(***************************************************************************)
(* The caller: any sequence of put_piece, place_king, remove and move      *)
(* calls on a Board constructed empty, calls that raise included.          *)
(***************************************************************************)
\* The raw positions the caller uses, and the same as chess coordinates.
RegionPos ==
    (0 .. MaxFile) \X ((StartRow("b") - RowsBelow) .. StartRow("b"))
Region == { coord_to_chess(p) : p \in RegionPos }

NoEnPassant == <<NonePos, NonePiece>>

\* The record of a call: the method, the exception it raised or "ok", and for
\* move what the call was: the kind of the piece, whether the destination is
\* two squares ahead of a Pawn, whether it is the en-passant square, whether it
\* is a raw target of the piece (get_moves), and what the destination held
\* ("empty", "enemy", "own", "self" for the piece itself).
Call(op, err) ==
    [op |-> op, err |-> err, kind |-> "-", double |-> FALSE, ep |-> "-",
     raw |-> FALSE, dst |-> "-"]

MoveCall(err, piece, npos) ==
    [op |-> "move", err |-> err, kind |-> piece.kind,
     double |-> (piece.kind = "Pawn" /\ move_set(piece, npos) # NonePos),
     ep |-> IF piece.kind = "Pawn" /\ npos = en_passant[1]
            THEN IF en_passant[2].team = piece.team THEN "own" ELSE "enemy"
            ELSE "-",
     raw |-> (npos \in get_moves(_pieces, piece.kind, piece.team,
                                 piece.position, en_passant[1])),
     dst |-> IF npos \notin DOMAIN _pieces THEN "empty"
             ELSE IF npos = piece.position THEN "self"
             ELSE IF _pieces[npos].team = piece.team THEN "own" ELSE "enemy"]

\* The board after a call.
Becomes(b) ==
    /\ board' = b.board
    /\ _pieces' = b._pieces
    /\ kings' = b.kings
    /\ en_passant' = b.en_passant

Init ==
    /\ board = EmptyBoard.board
    /\ _pieces = EmptyBoard._pieces
    /\ kings = EmptyBoard.kings
    /\ en_passant = EmptyBoard.en_passant
    /\ last = Call("init", "ok")
    /\ lastmove = "none"
    /\ calls = 0

\* One more call of the caller.
Called == calls < MaxCalls /\ calls' = calls + 1

Room == Cardinality(DOMAIN _pieces) < MaxPieces

PutPiece ==
    \E c \in Region, k \in PutKinds, t \in Team :
        /\ Called
        /\ Room \/ chess_to_coord(c) \in DOMAIN _pieces
        /\ LET r == put_piece(Self, c, k, t)
           IN  /\ Becomes(r.b)
               /\ last' = Call("put_piece", r.err)
        /\ UNCHANGED lastmove

PlaceKing ==
    \E c \in Region, t \in Team :
        /\ Called
        /\ Room \/ chess_to_coord(c) \in DOMAIN _pieces
        /\ LET r == place_king(Self, c, t)
           IN  /\ Becomes(r.b)
               /\ last' = Call("place_king", r.err)
        /\ UNCHANGED lastmove

Remove ==
    \E pos \in RegionPos :
        /\ Called
        /\ LET r == remove(Self, pos)
           IN  /\ Becomes(r.b)
               /\ last' = Call("remove", r.err)
        /\ UNCHANGED lastmove

\* What a move call was, for the en-passant lifetime: a pawn's two-square
\* advance ("double"), another move made while en_passant held a square
\* ("next"), or any other move ("other").
MoveKind(piece, npos) ==
    IF piece.kind = "Pawn" /\ move_set(piece, npos) # NonePos
    THEN "double"
    ELSE IF en_passant[1] # NonePos THEN "next" ELSE "other"

\* b.move(b[src], dst): the piece is taken from the board, as in
\* b.move(b['d', 2], ('d', 4)).
Move ==
    \E src \in DOMAIN _pieces, c \in Region :
        LET piece == _pieces[src]
            r == move(Self, piece, c)
        IN  /\ Called
            /\ Becomes(r.b)
            /\ last' = MoveCall(r.err, piece, to_coord(c))
            /\ lastmove' = IF r.b = Self THEN lastmove
                           ELSE MoveKind(piece, to_coord(c))

Next == PutPiece \/ PlaceKing \/ Remove \/ Move

Spec == Init /\ [][Next]_vars

(***************************************************************************)
(* The legality engine on positions that were set up: a scenario script    *)
(* (board1 .. board5) places the kings and the pieces on an empty Board,   *)
(* then moves are played with move.  White's King is always placed,        *)
(* Black's may be missing.                                                 *)
(***************************************************************************)
\* What a scenario puts on a square: a King through place_king, any other
\* piece through put_piece.
SetupTypes == (PutKinds \cup {"King"}) \X Team

\* The board after the calls of a scenario f (square -> <<class, team>>).
RECURSIVE SetUp(_, _)
SetUp(b, f) ==
    IF DOMAIN f = {}
    THEN b
    ELSE LET p == CHOOSE q \in DOMAIN f : TRUE
             r == IF f[p][1] = "King"
                  THEN place_king(b, coord_to_chess(p), f[p][2])
                  ELSE put_piece(b, coord_to_chess(p), f[p][1], f[p][2])
         IN  SetUp(r.b, [q \in (DOMAIN f) \ {p} |-> f[q]])

\* Two squares that touch, by a side or by a corner.
Adjacent(p, q) ==
    /\ p # q
    /\ p[1] - q[1] \in -1 .. 1
    /\ p[2] - q[2] \in -1 .. 1

\* The scenarios are chess positions: the two kings never stand on squares
\* that touch.
Scenarios ==
    UNION { { f \in [sqs -> SetupTypes] :
                /\ Cardinality({ p \in sqs : f[p] = <<"King", "w">> }) = 1
                /\ Cardinality({ p \in sqs : f[p] = <<"King", "b">> }) <= 1
                /\ \A p, q \in sqs :
                      f[p] = <<"King", "w">> /\ f[q] = <<"King", "b">>
                          => ~Adjacent(p, q) } :
            sqs \in { x \in SUBSET RegionPos : Cardinality(x) <= SetupPieces } }

InitSetUp ==
    /\ \E f \in Scenarios : LET b == SetUp(EmptyBoard, f)
                            IN  /\ board = b.board
                                /\ _pieces = b._pieces
                                /\ kings = b.kings
                                /\ en_passant = b.en_passant
    /\ last = Call("init", "ok")
    /\ lastmove = "none"
    /\ calls = 0

\* A move of the game: a piece of the board to one of its raw targets.
Play ==
    \E src \in DOMAIN _pieces :
        \E dst \in RegionPos \cap get_moves(_pieces, _pieces[src].kind,
                                            _pieces[src].team,
                                            _pieces[src].position,
                                            en_passant[1]) :
            LET piece == _pieces[src]
                r == move(Self, piece, coord_to_chess(dst))
            IN  /\ calls < MaxPlies
                /\ calls' = calls + 1
                /\ Becomes(r.b)
                /\ last' = MoveCall(r.err, piece, dst)
                /\ lastmove' = IF r.b = Self THEN lastmove
                               ELSE MoveKind(piece, dst)

SpecLegal == InitSetUp /\ [][Play]_vars

(***************************************************************************)
(* Claims                                                                  *)
(***************************************************************************)
\* The King of the team is placed: kings[team] is set and is the piece the map
\* holds at its position.
KingPlaced(b, team) ==
    /\ b.kings[team] # NonePiece
    /\ b.kings[team].position \in DOMAIN b._pieces
    /\ b._pieces[b.kings[team].position] = b.kings[team]

BothKings(b) == \A team \in Team : KingPlaced(b, team)

\* The step is the call move(_pieces[src], c).
IsMove(src, c) ==
    /\ last'.op = "move"
    /\ calls' = calls + 1
    /\ src \in DOMAIN _pieces
    /\ Becomes(move(Self, _pieces[src], c).b)
    /\ last' = MoveCall(move(Self, _pieces[src], c).err, _pieces[src], to_coord(c))

\* C3: after move(p, dst) of a piece p standing on src # dst, p.position is dst,
\* the map and the grid hold p at dst, src is empty in both, and an enemy piece
\* that stood on dst is in neither (an ordinary capture), for every piece kind.
\* Stated for the destinations the piece can reach (its raw targets), a Pawn's
\* diagonal capture among them.
C3_MovePostcondition ==
    [][\A src \in RegionPos, c \in Region :
          (IsMove(src, c) /\ src # to_coord(c) /\ last'.raw
             /\ (to_coord(c) \in DOMAIN _pieces
                   => _pieces[to_coord(c)].team # _pieces[src].team))
          => /\ last'.err = "ok"
             /\ to_coord(c) \in DOMAIN _pieces'
             /\ _pieces'[to_coord(c)] = [_pieces[src] EXCEPT !.position = to_coord(c)]
             /\ Grid(board', to_coord(c)) = _pieces'[to_coord(c)]
             /\ src \notin DOMAIN _pieces'
             /\ Grid(board', src) = Zero]_vars

\* The teams whose King is placed.
Placed == { team \in Team : KingPlaced(Self, team) }

\* The positions of the pieces of a team.
PiecesOf(b, team) == { pos \in DOMAIN b._pieces : b._pieces[pos].team = team }

\* The raw targets of the piece on pos, the en-passant square included.
RawTargets(b, pos) ==
    get_moves(b._pieces, b._pieces[pos].kind, b._pieces[pos].team,
              b._pieces[pos].position, b.en_passant[1])

\* The move of the piece on src to dst succeeds and leaves the King of the
\* team outside the danger zone of the other team.
SafeMove(b, team, src, dst) ==
    LET r == move(b, b._pieces[src], coord_to_chess(dst))
    IN  r.err = "ok" /\ ~is_check(r.b, team)

\* C1: with both kings placed, every entry src -> dst of legal_moves(team) is a
\* move that succeeds and after which is_check(team) is false.
C1_LegalMovesSound ==
    BothKings(Self) =>
        \A team \in Team :
            \A src \in DOMAIN legal_moves(Self, team) :
                \A dst \in legal_moves(Self, team)[src] :
                    SafeMove(Self, team, src, dst)

\* C2: with both kings placed, every raw target dst of a piece of team on src
\* (an en-passant capture included) whose move leaves team's King outside the
\* enemy danger zone is in legal_moves(team)[src].
C2_LegalMovesComplete ==
    BothKings(Self) =>
        \A team \in Team :
            \A src \in PiecesOf(Self, team) :
                \A dst \in RawTargets(Self, src) :
                    SafeMove(Self, team, src, dst)
                        => dst \in legal_moves(Self, team)[src]

\* C4: in every state reached from the empty Board by put_piece, place_king,
\* remove and move calls, the calls that raise included, a grid square holds a
\* piece if and only if the map has an entry for its position, and the two
\* hold the same piece.
C4_DualRepresentation ==
    \A pos \in Pos :
        /\ Grid(board, pos) # Zero <=> pos \in DOMAIN _pieces
        /\ pos \in DOMAIN _pieces => Grid(board, pos) = _pieces[pos]

\* A move that raised after it had taken the moving piece from its square, and
\* a piece is left on the board.
C4_AfterFailedMove ==
    /\ last.op = "move"
    /\ last.err = "ValueError"
    /\ DOMAIN _pieces # {}

\* The last call was a move that applied a pawn's two-square advance.
AfterDoubleAdvance ==
    /\ last.op = "move"
    /\ last.kind = "Pawn"
    /\ last.double
    /\ last.raw
    /\ last.err = "ok"

\* C5: a move that applies a pawn's two-square advance leaves en_passant equal
\* to (the skipped square, that pawn); when the very next move is a pawn of the
\* other team moving to the skipped square, the pawn that advanced is in
\* neither the grid nor the map although it did not stand on the destination,
\* and the capturing pawn stands on the skipped square.
C5_EnPassantCapture ==
    [][\A src \in RegionPos, c \in Region :
          (last'.kind = "Pawn" /\ IsMove(src, c)) =>
            /\ (/\ _pieces[src].kind = "Pawn"
                /\ last'.double
                /\ last'.raw
                /\ last'.err = "ok")
                 => en_passant' =
                      << <<src[1], src[2] + Dir(_pieces[src].team)>>,
                         [_pieces[src] EXCEPT !.position = to_coord(c)] >>
            /\ (/\ AfterDoubleAdvance
                /\ _pieces[src].kind = "Pawn"
                /\ _pieces[src].team # en_passant[2].team
                /\ to_coord(c) = en_passant[1])
                 => /\ last'.err = "ok"
                    /\ en_passant[2].position # to_coord(c)
                    /\ en_passant[2].position \notin DOMAIN _pieces'
                    /\ Grid(board', en_passant[2].position) = Zero
                    /\ to_coord(c) \in DOMAIN _pieces'
                    /\ _pieces'[to_coord(c)]
                         = [_pieces[src] EXCEPT !.position = to_coord(c)]
                    /\ Grid(board', to_coord(c)) = _pieces'[to_coord(c)]]_vars

\* An en-passant capture was applied right after the two-square advance: a
\* pawn moved to the en-passant square of a pawn of the other team, one of its
\* raw targets and the square in front of that team's starting row, and a
\* single piece is left of the two pawns.
C5_Captured ==
    /\ last.op = "move"
    /\ last.ep = "enemy"
    /\ lastmove = "next"
    /\ en_passant[2].position[2]
         = StartRow(Other(en_passant[2].team)) + Dir(Other(en_passant[2].team))
    /\ last.raw
    /\ last.err = "ok"
    /\ Cardinality(DOMAIN _pieces) < MaxPieces

Checkers(b, team) ==
    { pos \in PiecesOf(b, Other(team)) :
        /\ b._pieces[pos].kind # "King"
        /\ b.kings[team].position
             \in danger_zone(b._pieces, b._pieces[pos].kind, Other(team), pos) }

\* The squares strictly between two squares of one line (rank, file or
\* diagonal); none when the squares share no line.
StrictlyBetween(p, q) ==
    { s \in Pos : \E d \in KingDirs, k \in 2 .. N - 1, j \in 1 .. N - 2 :
                     /\ j < k
                     /\ q = Step(p, d, k)
                     /\ s = Step(p, d, j) }

\* C7: on a board where get_attackers(team) finds two attackers,
\* legal_moves(team) maps every piece of team other than the King to the
\* empty set, whatever en_passant is.
C7_DoubleCheck ==
    \A team \in Placed :
        (\E a \in get_attackers(Self, team) : Cardinality(a) = 2)
            => LET legal == legal_moves(Self, team)
               IN  \A pos \in DOMAIN legal :
                       pos # kings[team].position => legal[pos] = {}

\* The en-passant square, for a Pawn on pos that can capture on it the pawn on
\* att that advanced two squares; empty otherwise.
EnPassantOf(b, pos, att) ==
    IF /\ b._pieces[pos].kind = "Pawn"
       /\ b.en_passant[1] \in RawTargets(b, pos)
       /\ b.en_passant[2] = b._pieces[att]
    THEN {b.en_passant[1]}
    ELSE {}

\* C8: on a board where exactly one enemy piece attacks team's King,
\* legal_moves(team) maps every piece of team other than the King to a subset
\* of its raw moves intersected with the attacker's square and, for a sliding
\* attacker, the squares strictly between the attacker and the King.  The
\* en-passant capture of the checking pawn itself, which takes the attacker
\* from a square beside it, is let through.
C8_SingleCheck ==
    \A team \in Placed :
        \A att \in Checkers(Self, team) :
            (/\ Checkers(Self, team) = {att}
             /\ \A q \in PiecesOf(Self, Other(team)) :
                   _pieces[q].kind = "King"
                       => ~Adjacent(q, kings[team].position))
            => LET legal == legal_moves(Self, team)
                   allowed == {att} \cup
                                (IF IsSlider(_pieces[att].kind)
                                 THEN StrictlyBetween(att, kings[team].position)
                                 ELSE {})
               IN  \A pos \in DOMAIN legal :
                       pos # kings[team].position
                           => legal[pos] \subseteq
                                ((RawTargets(Self, pos) \cap allowed)
                                   \cup EnPassantOf(Self, pos, att))

\* C9: when team's King and an enemy Bishop, Rook or Queen S share a ray of
\* S's movement with exactly one piece between them, a piece F of team,
\* legal_moves(team)[F.position] is a subset of the squares between the King
\* and S plus S's square; also under check and with en_passant set.
C9_PinInvariant ==
    \A team \in Placed :
        \A s \in PiecesOf(Self, Other(team)) :
            \A f \in PiecesOf(Self, team) :
                (/\ IsSlider(_pieces[s].kind)
                 /\ \E d \in SliderDirs(_pieces[s].kind), k \in 2 .. N - 1 :
                       kings[team].position = Step(s, d, k)
                 /\ StrictlyBetween(s, kings[team].position) \cap DOMAIN _pieces = {f})
                => legal_moves(Self, team)[f]
                     \subseteq (StrictlyBetween(s, kings[team].position) \cup {s})

\* C10: with both kings placed, every piece of get_attackers(team) is a live
\* enemy piece other than the King whose own danger zone contains the position
\* of team's King (so an enemy slider whose line to the King passes through the
\* enemy's own King is not returned); when at most two such pieces exist all of
\* them are returned; and when the kings do not touch, get_attackers(team) is
\* non-empty if and only if is_check(team).
C10_AttackersAgree ==
    BothKings(Self) =>
        \A team \in Team :
            \A a \in get_attackers(Self, team) :
                LET found == { x[1].position : x \in a }
                IN  /\ found \subseteq Checkers(Self, team)
                    /\ \A x \in a : /\ x[1].position \in DOMAIN _pieces
                                    /\ _pieces[x[1].position] = x[1]
                    /\ Cardinality(Checkers(Self, team)) <= 2
                         => found = Checkers(Self, team)
                    /\ ~Adjacent(kings["w"].position, kings["b"].position)
                         => (a # {} <=> is_check(Self, team))

\* The step is the call put_piece(c, k, t) / place_king(c, t).
IsPutPiece(c, k, t) ==
    /\ last'.op = "put_piece"
    /\ calls' = calls + 1
    /\ Becomes(put_piece(Self, c, k, t).b)
    /\ last'.err = put_piece(Self, c, k, t).err

IsPlaceKing(c, t) ==
    /\ last'.op = "place_king"
    /\ calls' = calls + 1
    /\ Becomes(place_king(Self, c, t).b)
    /\ last'.err = place_king(Self, c, t).err

\* C11: put_piece and place_king on a square that already holds a piece raise
\* ValueError (the occupied-square error) and leave the grid, the map, kings
\* and en_passant as they were; a failed place_king does not change
\* kings[team].
C11_OccupiedPlacement ==
    [][\A c \in Region :
          chess_to_coord(c) \in DOMAIN _pieces =>
            /\ \A k \in PutKinds, t \in Team :
                  IsPutPiece(c, k, t)
                      => /\ last'.err = "ValueError"
                         /\ UNCHANGED <<board, _pieces, kings, en_passant>>
            /\ \A t \in Team :
                  IsPlaceKing(c, t)
                      => /\ last'.err = "ValueError"
                         /\ UNCHANGED <<board, _pieces, kings, en_passant>>]_vars

\* A place_king on an occupied square has raised, and no King is recorded.
C11_FailedPlaceKing ==
    /\ last.op = "place_king"
    /\ last.err = "ValueError"
    /\ DOMAIN _pieces # {}
    /\ \A t \in Team : kings[t] = NonePiece

\* The positions of the Kings of a team in the map.
KingsOf(b, team) ==
    { pos \in PiecesOf(b, team) : b._pieces[pos].kind = "King" }

\* C12: once place_king(team) has set kings[team], exactly one King of team is
\* in the map, kings[team] is that King, and the map entry at
\* kings[team].position is kings[team].
C12_KingReference ==
    \A team \in Team :
        kings[team] # NonePiece =>
            /\ Cardinality(KingsOf(Self, team)) = 1
            /\ kings[team].position \in DOMAIN _pieces
            /\ _pieces[kings[team].position] = kings[team]

\* The step is the call remove(pos).
IsRemove(pos) ==
    /\ last'.op = "remove"
    /\ calls' = calls + 1
    /\ Becomes(remove(Self, pos).b)
    /\ last'.err = remove(Self, pos).err

\* C14: remove(pos) on an occupied square returns, the square is empty in the
\* grid and has no entry in the map afterwards, and every other square, kings
\* and en_passant are as before; remove(pos) on an empty square raises KeyError
\* (the empty-square error) and leaves the whole board as it was.
C14_RemoveIsPure ==
    [][\A pos \in RegionPos :
          IsRemove(pos) =>
            IF pos \in DOMAIN _pieces
            THEN /\ last'.err = "ok"
                 /\ DOMAIN _pieces' = (DOMAIN _pieces) \ {pos}
                 /\ \A q \in DOMAIN _pieces' : _pieces'[q] = _pieces[q]
                 /\ \A q \in Pos :
                       Grid(board', q) = IF q = pos THEN Zero ELSE Grid(board, q)
                 /\ UNCHANGED <<kings, en_passant>>
            ELSE /\ last'.err = "KeyError"
                 /\ UNCHANGED <<board, _pieces, kings, en_passant>>]_vars

\* A remove of a piece has returned while en_passant holds a square.
C14_Removed ==
    /\ last.op = "remove"
    /\ last.err = "ok"
    /\ en_passant[1] # NonePos

\* C15: for a team whose King is placed, the keys of legal_moves(team) are
\* exactly the positions of the team's pieces in the map, the pieces whose move
\* set is empty included: every key is a grid square that holds a piece of the
\* team, and no key is an empty square or the square of an enemy piece.
C15_LegalMovesKeys ==
    \A team \in Placed :
        LET keys == DOMAIN legal_moves(Self, team)
        IN  /\ keys = PiecesOf(Self, team)
            /\ \A pos \in keys :
                  /\ Grid(board, pos) # Zero
                  /\ Grid(board, pos).team = team
            /\ \A pos \in DOMAIN board :
                  Grid(board, pos) # Zero /\ Grid(board, pos).team = team
                      => pos \in keys

\* A team with its King placed has a piece whose legal move set is empty and a
\* piece that can move, and the other team has a piece on the board.
C15_StuckPiece ==
    \E team \in Placed :
        LET pmoves == legal_moves(Self, team)
        IN  /\ \E pos \in PiecesOf(Self, team) : pmoves[pos] = {}
            /\ \E pos \in PiecesOf(Self, team) : pmoves[pos] # {}
            /\ PiecesOf(Self, Other(team)) # {}

\* C16: while no King of a team has been placed (kings[team] is None),
\* is_check(team), get_attackers(team) and legal_moves(team) end in an error
\* of their own kind, MissingKing, and not in the error of reading an
\* attribute of the absent kings[team].
C16_MissingKing ==
    \A team \in Team :
        kings[team] = NonePiece =>
            /\ is_check_raises(Self, team) = "MissingKing"
            /\ get_attackers_raises(Self, team) = "MissingKing"
            /\ legal_moves_raises(Self, team) = "MissingKing"

\* The raw moves of the piece on pos that its pin, if it has one, leaves it.
PinnedTargets(b, team, pos) ==
    pin_restrict(check_pins(b._pieces, team, b.kings[team].position), pos,
                 RawTargets(b, pos))

\* C17: when team's King is attacked and the en-passant square is in
\* legal_moves(team)[pos] for a Pawn of team on pos, the square is one of the
\* pawn's pin-restricted raw moves, and either the only attacker is the pawn
\* that just advanced two squares (en_passant's pawn, which the capture
\* removes) or the square is itself on the single attacker's line to the King.
C17_EnPassantUnderCheck ==
    \A team \in Placed :
        (Checkers(Self, team) # {} /\ en_passant[1] # NonePos)
            => LET legal == legal_moves(Self, team)
               IN  \A pos \in DOMAIN legal :
                     (_pieces[pos].kind = "Pawn" /\ en_passant[1] \in legal[pos])
                       => /\ en_passant[1] \in PinnedTargets(Self, team, pos)
                          /\ \E att \in Checkers(Self, team) :
                                /\ Checkers(Self, team) = {att}
                                /\ \/ _pieces[att] = en_passant[2]
                                   \/ /\ IsSlider(_pieces[att].kind)
                                      /\ en_passant[1] \in
                                           StrictlyBetween(att, kings[team].position)

\* C18: a call move(p, dst) of the piece p on src to one of its raw targets
\* either returns, or raises and leaves grid, map, kings and en_passant as they
\* were; and after the call p is still in the map, on src with its position
\* unchanged or on dst with position dst.
C18_MoveAllOrNothing ==
    [][\A src \in RegionPos, c \in Region :
          (IsMove(src, c) /\ src # to_coord(c) /\ last'.raw)
          => /\ \/ last'.err = "ok"
                \/ UNCHANGED <<board, _pieces, kings, en_passant>>
             /\ \/ /\ src \in DOMAIN _pieces'
                   /\ _pieces'[src] = _pieces[src]
                \/ /\ to_coord(c) \in DOMAIN _pieces'
                   /\ _pieces'[to_coord(c)]
                        = [_pieces[src] EXCEPT !.position = to_coord(c)]]_vars

\* C19: in every state reached by put_piece, place_king, remove and move
\* calls, when en_passant holds a square its pawn is a Pawn that the map holds
\* at the pawn's own position.
C19_EnPassantPawnLive ==
    en_passant[1] # NonePos
        => /\ en_passant[2].kind = "Pawn"
           /\ en_passant[2].position \in DOMAIN _pieces
           /\ _pieces[en_passant[2].position] = en_passant[2]

=============================================================================
